---- MODULE Spec2Model ----
(***************************************************************************)
(* Model of the player-control core of orochi: the slave-mode backend      *)
(* (orochi/player.py, class MPlayer), the session that drives it and       *)
(* receives its events as POSIX signals (orochi/client.py, class           *)
(* PlayCommand) and the idle-protocol backend (orochi/backends/mpd.py).    *)
(*                                                                         *)
(* The main thread is a call stack of frames.  A Python-level signal       *)
(* handler runs on the main thread between two bytecodes of whatever the   *)
(* main thread is executing, so a handler is a frame pushed on top of the  *)
(* interrupted frame.  Monitor threads are the entries of thr.  What the   *)
(* player process prints, and whether a deadline has passed, is chosen by  *)
(* the environment whenever the program looks at it.                       *)
(*                                                                         *)
(* done, stdin, lastReport and emitted describe the latest step only: the  *)
(* calls it ended, the line it wrote, the report and the signal it sent.   *)
(***************************************************************************)
EXTENDS Integers, Sequences, FiniteSets, TLC

\* ------------------------------------------------------------------ bounds
\* number of tracks the 8tracks API hands out in one run (one per load call)
MaxTracks == 4
\* number of commands the user of a constructed session issues in one run
MaxCommands == 1
\* the longest mix name
MaxName == 33
\* the most calls of the methods of the API that use the play token
MaxRequests == 4
\* the mixes of one page of search results (results_per_page) and the most
\* pages of results that a query has
PerPage == 2
MaxPages == 2

\* --------------------------------------------------------------- constants
\* signal numbers of signals.SONG_ENDED and signals.REGISTER_SONG
SIGUSR1 == 10
SIGUSR2 == 12
\* report threshold in seconds: float(match.group(1)) >= 30
ReportAfter == 30
\* volume range: assert 0 <= amount <= 100
MinVolume == 0
MaxVolume == 100

\* position values are kept in tenths of a second (31.2 is 312)
PosValues == {299, 300, 312}
NoPos == 0 - 1
Amounts == {0 - 1, 0, 100, 101}
\* client.py 41
NAME_MAX_LENGTH == 30

VARIABLES
    variant,        \* "mplayer" or "mpd": the backend variant of this run
    stack,          \* call stack of the main thread, top is the last frame
    done,           \* the backend calls that the latest step ended, innermost first
    lifecycle,      \* "init", "ready", "failed", "collected": the session object
    p,              \* MPlayer.p: "none", "proc" (asyncproc.Process), "dead" (DeadMPlayer)
    procTerminated, \* Process.terminate() has been called on the child
    t,              \* MPlayer.t: 0 (None) or an index into thr
    t_stop,         \* MPlayer.t_stop: 0 (unset) or an index into events
    events,         \* the threading.Event objects: is the flag set
    thr,            \* the monitor threads created so far
    write_lock,     \* MPlayer.write_lock: "free", "main", "monitor"
    stdin,          \* the line that the latest step wrote to the player's input
    pausing_keep,   \* MPlayer.pausing_keep
    handlers,       \* disposition of SIGUSR1 and SIGUSR2
    pending,        \* tripped signals not yet handled, in the order they were tripped
    emitted,        \* the signal that the latest step sent with os.kill
    status,         \* PlayCommand.status: the track the session regards as current
    nTracks,        \* tracks handed out by the API so far
    nCommands,      \* commands issued at the prompt so far
    lastReport,     \* the api.report_track call that the latest step made
    killed,         \* the process was ended by a signal with default disposition
    mix,            \* mix['name']: the name of the mix that get_prompt is given
    prompt,         \* the prompt that get_prompt has returned, <<>> before the call
    client,         \* the Client of the command line: its API object and its own fields
    mpd             \* the idle-protocol backend and its daemon

vars == <<variant, mix, prompt, client, stack, done, lifecycle, p, procTerminated, t, t_stop, events, thr,
          write_lock, stdin, pausing_keep, handlers, pending, emitted, status, nTracks,
          nCommands, lastReport, killed, mpd>>

\* variables of the session and of the other backend variant
sessionVars == <<variant, mix, prompt, client, handlers, pending, status, nTracks, nCommands, killed, mpd>>

\* variables of the slave-mode backend, but for the write lock
backendVars == <<p, procTerminated, t, t_stop, events, thr, pausing_keep>>

\* a line of the player's input: the command, its prefix, its number argument
\* and its text argument (a sequence of characters)
NoLine == [cmd |-> "", prefix |-> "", arg |-> 0, text |-> <<>>]

NoReport == [track |-> 0, from |-> 0]

NoSignal == [sig |-> "", track |-> 0, by |-> 0]

\* a step that writes no line, reports no track and sends no signal
Silent ==
    /\ stdin' = NoLine
    /\ lastReport' = NoReport
    /\ emitted' = NoSignal

\* ------------------------------------------------------------------ errors
\* errors.py: the three error classes derive from RuntimeError
RuntimeErrors == {"RuntimeError", "TerminatedError", "InitializationError", "CommandError"}

\* ------------------------------------------------------------- call stack
BackendOps == {"MPlayer", "load", "playpause", "stop", "volume", "terminate"}

Top == stack[Len(stack)]

\* a signal handler is running on the main thread
Busy == \E k \in 1..Len(stack) : stack[k].h

\* the main thread checks for tripped signals before its next instruction,
\* unless it is in a handler already: it goes on with (op, pc) only when
\* there is no signal to handle first
At(op, pc) ==
    /\ variant = "mplayer"
    /\ ~killed
    /\ stack # <<>>
    /\ Top.op = op
    /\ Top.pc = pc
    /\ pending = <<>> \/ Busy

\* a new frame; g keeps the process handle seen when the call was made
Frame(op, pc, a, l) == [op |-> op, pc |-> pc, a |-> a, l |-> l, h |-> FALSE, g |-> p]

\* how a call ended, and where it was; cut tells that the exception is one
\* that a signal handler raised into the call
Outcome(f, exc, cut) ==
    [op |-> f.op, a |-> f.a, pc |-> f.pc, exc |-> exc, g |-> f.g, cut |-> cut]

Goto(pc) == [stack EXCEPT ![Len(stack)].pc = pc]

Call(cont, callee) == Append(Goto(cont), callee)

\* the top frame goes on, or calls
Step(s) ==
    /\ stack' = s
    /\ done' = <<>>
    /\ UNCHANGED <<lifecycle, write_lock>>

\* the top frame returns
Ret ==
    /\ stack' = SubSeq(stack, 1, Len(stack) - 1)
    /\ done' = IF Top.op \in BackendOps THEN <<Outcome(Top, "ok", FALSE)>> ELSE <<>>
    /\ lifecycle' = IF Len(stack) = 1 /\ Top.op = "PlayCommand" THEN "ready"
                    ELSE IF Len(stack) = 1 /\ Top.op = "do_stop" THEN "exited"
                    ELSE lifecycle
    /\ UNCHANGED write_lock

\* client.py 513-517 and 545-549: the try blocks of the session
Catches(f, exc) ==
    \/ /\ f.op = "_song_end_handler"
       /\ f.pc = "load_ret"
       /\ f.l = "notlast"
       /\ exc \in RuntimeErrors
    \/ /\ f.op = "do_stop"
       /\ f.pc \in {"stop_ret", "terminate_ret"}
       /\ exc = "TerminatedError"

CatchPc(f) == IF f.op = "_song_end_handler" THEN "except" ELSE "terminate_ret"

CatchIdx(exc) ==
    LET c == {i \in 1..Len(stack) : Catches(stack[i], exc)}
    IN IF c = {} THEN 0 ELSE CHOOSE i \in c : \A j \in c : j <= i

\* the calls among the frames k+1..n that the exception ends, innermost first
RECURSIVE Ended(_, _, _, _)
Ended(k, n, exc, cut) ==
    IF n <= k THEN <<>>
    ELSE (IF stack[n].op \in BackendOps THEN <<Outcome(stack[n], exc, cut)>> ELSE <<>>)
         \o Ended(k, n - 1, exc, cut \/ stack[n].h)

\* an exception raised in the top frame unwinds the stack up to the nearest
\* frame that catches it; leaving the with-block of _send_command releases
\* the write lock; an exception that nobody catches reaches the caller
Raise(exc) ==
    LET k == CatchIdx(exc)
    IN /\ stack' = IF k = 0 THEN <<>>
                   ELSE [SubSeq(stack, 1, k) EXCEPT ![k].pc = CatchPc(stack[k])]
       /\ done' = Ended(k, Len(stack), exc, FALSE)
       /\ lifecycle' = IF k = 0 /\ stack[1].op = "PlayCommand" THEN "failed" ELSE lifecycle
       /\ write_lock' = IF \E i \in (k + 1)..Len(stack) :
                               stack[i].op = "_send_command" /\ stack[i].pc = "write"
                        THEN "free" ELSE write_lock

\* -------------------------------------------------------- asyncproc.Process
\* read and write work on a handle that was not terminated
ProcUsable(ref) == ref = "proc" /\ ~procTerminated

\* ------------------------------------------------------- MPlayer.__init__
\* player.py 49-54: is there an mplayer binary
MPlayer_CheckBinary ==
    /\ At("MPlayer", "binary")
    /\ \E retcode \in {0, 127} :
         IF retcode = 127 THEN Raise("InitializationError")
         ELSE Step(Goto("spawn"))
    /\ Silent
    /\ UNCHANGED backendVars
    /\ UNCHANGED sessionVars

\* player.py 55-66
MPlayer_Spawn ==
    /\ At("MPlayer", "spawn")
    /\ p' = "proc"
    /\ t' = 0
    /\ Step(Goto("wait_banner"))
    /\ Silent
    /\ UNCHANGED <<procTerminated, t_stop, events, thr, pausing_keep>>
    /\ UNCHANGED sessionVars

\* player.py 68-77: the round of the handshake loop that leaves the loop (a
\* round that sleeps and tries again changes nothing)
MPlayer_WaitBanner ==
    /\ At("MPlayer", "wait_banner")
    /\ \E banner \in BOOLEAN :
         IF banner THEN Step(Goto("probe"))
         ELSE Raise("RuntimeError")
    /\ Silent
    /\ UNCHANGED backendVars
    /\ UNCHANGED sessionVars

\* player.py 81: the probe is written without the write lock
MPlayer_Probe ==
    /\ At("MPlayer", "probe")
    /\ stdin' = [cmd |-> "get_prop", prefix |-> "pausing_keep_force", arg |-> 0, text |-> <<>>]
    /\ Step(Goto("probe_wait"))
    /\ lastReport' = NoReport
    /\ emitted' = NoSignal
    /\ UNCHANGED backendVars
    /\ UNCHANGED sessionVars

\* player.py 82-95: the answer is read within the window, or the window ends
MPlayer_ProbeWait ==
    /\ At("MPlayer", "probe_wait")
    /\ \E has_pausing_keep_force \in BOOLEAN :
         pausing_keep' = IF has_pausing_keep_force THEN "pausing_keep_force"
                         ELSE "pausing_keep"
    /\ Ret
    /\ Silent
    /\ UNCHANGED <<p, procTerminated, t, t_stop, events, thr>>
    /\ UNCHANGED sessionVars

\* -------------------------------------------------------------------- text
\* a text is a sequence of characters
Text(s) ==
    CASE s = "https://a?b" -> <<"h", "t", "t", "p", "s", ":", "/", "/", "a", "?", "b">>
      [] s = "http://a"    -> <<"h", "t", "t", "p", ":", "/", "/", "a">>
      [] s = "httpsx://a"  -> <<"h", "t", "t", "p", "s", "x", ":", "/", "/", "a">>
      [] s = "https://a"   -> <<"h", "t", "t", "p", "s", ":", "/", "/", "a">>
      [] s = "https:"      -> <<"h", "t", "t", "p", "s", ":">>
      [] s = "http:"       -> <<"h", "t", "t", "p", ":">>
      [] s = "(8tracks:"   -> <<"(", "8", "t", "r", "a", "c", "k", "s", ":">>
      [] s = "8tracks"     -> <<"8", "t", "r", "a", "c", "k", "s">>
      [] s = ")> "         -> <<")", ">", " ">>
      [] s = "..."         -> <<".", ".", ".">>
      [] s = "("           -> <<"(">>
      [] s = ":"           -> <<":">>

\* the URLs that the tracks resolve to
Urls == <<Text("https://a"), Text("http://a"), Text("httpsx://a"), Text("https://a?b")>>

\* player.py 134: url = requests.head(path, allow_redirects=True).url
UrlOf(track) == Urls[((track - 1) % Len(Urls)) + 1]

\* str.startswith
StartsWith(s, prefix) ==
    Len(s) >= Len(prefix) /\ SubSeq(s, 1, Len(prefix)) = prefix

\* as FixScheme, but the colon of the old scheme is kept: 'http:' + url[5:]
FixScheme_keeps_colon(url) ==
    IF StartsWith(url, Text("https:"))
    THEN Text("http:") \o SubSeq(url, 6, Len(url))
    ELSE url

\* player.py 137-138: if url.startswith('https:'): url = 'http:' + url[6:]
FixScheme(url) ==
    IF StartsWith(url, Text("https:"))
    THEN Text("http:") \o SubSeq(url, 7, Len(url))
    ELSE url

\* pipes.quote: the characters that need no quoting
SafeChars == {"h", "t", "p", "s", "x", "a", "b", ":", "/"}

RECURSIVE EscapeQuotes(_)
\* pipes.quote: s.replace("'", "'\"'\"'")
EscapeQuotes(s) ==
    IF s = <<>> THEN <<>>
    ELSE (IF Head(s) = "'" THEN <<"'", "\"", "'", "\"", "'">> ELSE <<Head(s)>>)
         \o EscapeQuotes(Tail(s))

\* player.py 114, pipes.quote: a text with a character that is not safe is put
\* between single quotes
Quote(s) ==
    IF s = <<>> THEN <<"'", "'">>
    ELSE IF \A i \in 1..Len(s) : s[i] \in SafeChars THEN s
    ELSE <<"'">> \o EscapeQuotes(s) \o <<"'">>

\* --------------------------------------------------- MPlayer._send_command
\* player.py 113: with self.write_lock, which blocks while the lock is held
send_command_Acquire ==
    /\ At("_send_command", "acquire")
    /\ write_lock = "free"
    /\ write_lock' = "main"
    /\ stack' = Goto("write")
    /\ done' = <<>>
    /\ UNCHANGED lifecycle
    /\ Silent
    /\ UNCHANGED backendVars
    /\ UNCHANGED sessionVars

\* player.py 114-115: self.p.write(...), and the with-block releases the lock
send_command_Write ==
    /\ At("_send_command", "write")
    /\ IF ProcUsable(p)
       THEN /\ stdin' = Top.a
            /\ stack' = SubSeq(stack, 1, Len(stack) - 1)
            /\ write_lock' = "free"
            /\ done' = <<>>
            /\ UNCHANGED lifecycle
       ELSE /\ stdin' = NoLine
            /\ Raise("TerminatedError")
    /\ lastReport' = NoReport
    /\ emitted' = NoSignal
    /\ UNCHANGED backendVars
    /\ UNCHANGED sessionVars

SendFrame(cmd, prefix, arg) ==
    Frame("_send_command", "acquire",
          [cmd |-> cmd, prefix |-> prefix, arg |-> arg, text |-> <<>>], 0)

\* player.py 114: quote(str(arg)) for a text argument
SendTextFrame(cmd, arg, text) ==
    Frame("_send_command", "acquire",
          [cmd |-> cmd, prefix |-> "", arg |-> arg, text |-> Quote(text)], 0)

\* ------------------------------------------ MPlayer._stop_background_thread
IsAlive(i) == thr[i].pc \notin {"new", "done"}

\* player.py 120
stop_background_thread_Check ==
    /\ At("_stop_background_thread", "check")
    /\ IF t # 0 /\ IsAlive(t) THEN Step(Goto("set")) ELSE Ret
    /\ Silent
    /\ UNCHANGED backendVars
    /\ UNCHANGED sessionVars

\* player.py 121: self.t_stop.set()
stop_background_thread_Set ==
    /\ At("_stop_background_thread", "set")
    /\ events' = [events EXCEPT ![t_stop] = TRUE]
    /\ Step(Goto("join"))
    /\ Silent
    /\ UNCHANGED <<p, procTerminated, t, t_stop, thr, pausing_keep>>
    /\ UNCHANGED sessionVars

\* player.py 123: self.t.join() is called on the thread that self.t is now
stop_background_thread_Join ==
    /\ At("_stop_background_thread", "join")
    /\ Step([stack EXCEPT ![Len(stack)].pc = "wait", ![Len(stack)].l = t])
    /\ Silent
    /\ UNCHANGED backendVars
    /\ UNCHANGED sessionVars

\* player.py 123: join() returns when the thread has ended
stop_background_thread_Joined ==
    /\ At("_stop_background_thread", "wait")
    /\ thr[Top.l].pc = "done"
    /\ Ret
    /\ Silent
    /\ UNCHANGED backendVars
    /\ UNCHANGED sessionVars

StopFrame == Frame("_stop_background_thread", "check", 0, 0)

TerminateFrame == Frame("terminate", "check", 0, 0)

\* ------------------------------------------------------------ MPlayer.load
\* player.py 134-141: resolve and fix the URL, stop the previous monitor
load_StopPrevious ==
    /\ At("load", "begin")
    /\ Step(Call("send", StopFrame))
    /\ Silent
    /\ UNCHANGED backendVars
    /\ UNCHANGED sessionVars

\* as load_SendLoadfile, but the output is not polled for the marker
load_SendLoadfile_no_wait ==
    /\ At("load", "send")
    /\ Step(Call("new_event", SendTextFrame("loadfile", Top.a, FixScheme(UrlOf(Top.a)))))
    /\ Silent
    /\ UNCHANGED backendVars
    /\ UNCHANGED sessionVars

\* player.py 144
load_SendLoadfile ==
    /\ At("load", "send")
    /\ Step(Call("wait", SendTextFrame("loadfile", Top.a, FixScheme(UrlOf(Top.a)))))
    /\ Silent
    /\ UNCHANGED backendVars
    /\ UNCHANGED sessionVars

\* player.py 145-153: the round of the wait loop that leaves the loop: the
\* chunk read holds the marker, or the deadline has passed and the backend is
\* terminated before the error is raised
load_WaitStarted ==
    /\ At("load", "wait")
    /\ IF ProcUsable(p)
       THEN \E started \in BOOLEAN :
              Step(IF started THEN Goto("new_event") ELSE Call("timeout", TerminateFrame))
       ELSE Raise("TerminatedError")
    /\ Silent
    /\ UNCHANGED backendVars
    /\ UNCHANGED sessionVars

\* player.py 151
load_RaiseTimeout ==
    /\ At("load", "timeout")
    /\ Raise("RuntimeError")
    /\ Silent
    /\ UNCHANGED backendVars
    /\ UNCHANGED sessionVars

\* player.py 181: self.t_stop = threading.Event()
load_NewEvent ==
    /\ At("load", "new_event")
    /\ events' = Append(events, FALSE)
    /\ t_stop' = Len(events) + 1
    /\ Step(Goto("thread_args"))
    /\ Silent
    /\ UNCHANGED <<p, procTerminated, t, thr, pausing_keep>>
    /\ UNCHANGED sessionVars

\* player.py 182: thread_args = (self.p, self.t_stop, ...)
load_ThreadArgs ==
    /\ At("load", "thread_args")
    /\ Step([stack EXCEPT ![Len(stack)].pc = "new_thread",
                          ![Len(stack)].l = [proc |-> p, ev |-> t_stop]])
    /\ Silent
    /\ UNCHANGED backendVars
    /\ UNCHANGED sessionVars

\* as NewThread, but reported is kept with the player and is not cleared
NewThread_keeps_reported(args, track) ==
    [pc |-> "new", proc |-> args.proc, ev |-> args.ev, track |-> track,
     reported |-> t # 0 /\ thr[t].reported, ended |-> FALSE, registered |-> FALSE,
     pos |-> NoPos]

\* player.py 165, 183: a thread object before start(), with the locals that
\* playback_status begins with; ended and registered tell whether the thread
\* has sent SONG_ENDED and REGISTER_SONG
NewThread(args, track) ==
    [pc |-> "new", proc |-> args.proc, ev |-> args.ev, track |-> track,
     reported |-> FALSE, ended |-> FALSE, registered |-> FALSE, pos |-> NoPos]

\* player.py 183-184: self.t = threading.Thread(...)
load_NewThread ==
    /\ At("load", "new_thread")
    /\ thr' = Append(thr, NewThread(Top.l, Top.a))
    /\ t' = Len(thr) + 1
    /\ Step(Goto("start"))
    /\ Silent
    /\ UNCHANGED <<p, procTerminated, t_stop, events, pausing_keep>>
    /\ UNCHANGED sessionVars

\* what is left of a thread that has ended is that it has ended and, as long
\* as the backend refers to it, whether it had reported its track
Forgotten(th) == [th EXCEPT !.reported = FALSE, !.registered = FALSE]

\* player.py 185: self.t.start(); a thread can be started only once
load_StartThread ==
    /\ At("load", "start")
    /\ IF thr[t].pc = "new"
       THEN /\ thr' = [i \in DOMAIN thr |->
                         IF i = t THEN [thr[i] EXCEPT !.pc = "loop"]
                         ELSE IF thr[i].pc = "done" THEN Forgotten(thr[i])
                         ELSE thr[i]]
            /\ Ret
       ELSE /\ thr' = thr
            /\ Raise("RuntimeError")
    /\ Silent
    /\ UNCHANGED <<p, procTerminated, t, t_stop, events, pausing_keep>>
    /\ UNCHANGED sessionVars

\* ------------------------------------------------------- MPlayer.playpause
\* player.py 189
playpause_Send ==
    /\ At("playpause", "begin")
    /\ Step(Call("end", SendFrame("pause", "", 0)))
    /\ Silent
    /\ UNCHANGED backendVars
    /\ UNCHANGED sessionVars

playpause_Return ==
    /\ At("playpause", "end")
    /\ Ret
    /\ Silent
    /\ UNCHANGED backendVars
    /\ UNCHANGED sessionVars

\* ------------------------------------------------------------ MPlayer.stop
\* player.py 193
stop_Send ==
    /\ At("stop", "begin")
    /\ Step(Call("stop_thread", SendFrame("stop", pausing_keep, 0)))
    /\ Silent
    /\ UNCHANGED backendVars
    /\ UNCHANGED sessionVars

\* player.py 194
stop_StopThread ==
    /\ At("stop", "stop_thread")
    /\ Step(Call("end", StopFrame))
    /\ Silent
    /\ UNCHANGED backendVars
    /\ UNCHANGED sessionVars

stop_Return ==
    /\ At("stop", "end")
    /\ Ret
    /\ Silent
    /\ UNCHANGED backendVars
    /\ UNCHANGED sessionVars

\* ---------------------------------------------------------- MPlayer.volume
\* as ValidAmount, but the ends of the range are refused
ValidAmount_exclusive(amount) == MinVolume < amount /\ amount < MaxVolume

\* player.py 210: assert 0 <= amount <= 100
ValidAmount(amount) == MinVolume <= amount /\ amount <= MaxVolume

\* as volume_Check, but the command is always sent in the fallback form
volume_Check_fallback_only ==
    /\ At("volume", "begin")
    /\ IF ValidAmount(Top.a)
       THEN Step(Call("end", SendFrame("volume", "pausing_keep", Top.a)))
       ELSE Raise("ValueError")
    /\ Silent
    /\ UNCHANGED backendVars
    /\ UNCHANGED sessionVars

\* player.py 208-213
volume_Check ==
    /\ At("volume", "begin")
    /\ IF ValidAmount(Top.a)
       THEN Step(Call("end", SendFrame("volume", pausing_keep, Top.a)))
       ELSE Raise("ValueError")
    /\ Silent
    /\ UNCHANGED backendVars
    /\ UNCHANGED sessionVars

volume_Return ==
    /\ At("volume", "end")
    /\ Ret
    /\ Silent
    /\ UNCHANGED backendVars
    /\ UNCHANGED sessionVars

\* ------------------------------------------------------- MPlayer.terminate
\* player.py 219: hasattr() is false when the attribute is missing and, in
\* Python 2, also when looking it up raises, as DeadMPlayer.__getattr__ does
HasTerminate(ref) == ref = "proc"

\* player.py 219-220
terminate_Check ==
    /\ At("terminate", "check")
    /\ IF HasTerminate(p) THEN Step(Call("kill", StopFrame)) ELSE Ret
    /\ Silent
    /\ UNCHANGED backendVars
    /\ UNCHANGED sessionVars

\* player.py 221: self.p.terminate()
terminate_Kill ==
    /\ At("terminate", "kill")
    /\ IF p = "proc"
       THEN /\ procTerminated' = TRUE
            /\ Step(Goto("mark"))
       ELSE /\ procTerminated' = procTerminated
            /\ Raise("TerminatedError")
    /\ Silent
    /\ UNCHANGED <<p, t, t_stop, events, thr, pausing_keep>>
    /\ UNCHANGED sessionVars

\* player.py 222: self.p = DeadMPlayer()
terminate_Mark ==
    /\ At("terminate", "mark")
    /\ p' = "dead"
    /\ Ret
    /\ Silent
    /\ UNCHANGED <<procTerminated, t, t_stop, events, thr, pausing_keep>>
    /\ UNCHANGED sessionVars

\* ==================================================== signals of the process
SigNum(sig) == IF sig = "SIGUSR1" THEN SIGUSR1 ELSE SIGUSR2

Tripped(sig) == \E k \in 1..Len(pending) : pending[k].sig = sig

\* os.kill(os.getpid(), sig): with a Python handler installed the signal is
\* tripped (a signal that is already tripped is not tripped twice); with the
\* default disposition SIGUSR1 and SIGUSR2 end the process
os_kill(sig, track, by) ==
    /\ emitted' = [sig |-> sig, track |-> track, by |-> by]
    /\ IF handlers[sig] = "handler"
       THEN /\ pending' = IF Tripped(sig) THEN pending
                          ELSE Append(pending, [sig |-> sig, track |-> track])
            /\ UNCHANGED killed
       ELSE /\ killed' = TRUE
            /\ UNCHANGED pending

\* the tripped signal with the lowest number is handled first
LowestPending ==
    CHOOSE k \in 1..Len(pending) :
        \A j \in 1..Len(pending) : SigNum(pending[k].sig) <= SigNum(pending[j].sig)

Without(seq, k) == SubSeq(seq, 1, k - 1) \o SubSeq(seq, k + 1, Len(seq))

\* the main thread is in a call that a signal does not interrupt: the join
\* of a thread that has not ended (player.py 123), the acquire of a lock that
\* is held (player.py 113)
MainBlocked ==
    /\ stack # <<>>
    /\ \/ Top.op = "_stop_background_thread" /\ Top.pc = "wait" /\ thr[Top.l].pc # "done"
       \/ Top.op = "_send_command" /\ Top.pc = "acquire" /\ write_lock # "free"

\* the main thread enters the handler of a tripped signal before its next
\* instruction; handlers are not entered while a handler is running
Deliverable(sig) ==
    /\ variant = "mplayer"
    /\ ~killed
    /\ pending # <<>>
    /\ ~Busy
    /\ ~MainBlocked
    /\ pending[LowestPending].sig = sig

\* client.py 480, 503: the handler registered for SONG_ENDED is entered on the
\* main thread, on top of whatever the main thread is executing
RunHandler ==
    /\ Deliverable("SIGUSR1")
    /\ nTracks < MaxTracks
    /\ Step(Append(stack, [op |-> "_song_end_handler", pc |-> "begin",
                           a |-> pending[LowestPending].track, l |-> "", h |-> TRUE,
                           g |-> p]))
    /\ pending' = Without(pending, LowestPending)
    /\ Silent
    /\ UNCHANGED backendVars
    /\ UNCHANGED <<variant, mix, prompt, client, handlers, status, nTracks, nCommands, killed, mpd>>

\* signal.signal(sig, disposition) also clears a trip of sig
Untrip(sig) == SelectSeq(pending, LAMBDA s : s.sig # sig)

\* ------------------------------------------- MPlayer.load.playback_status
\* what a step of a monitor thread leaves alone
mainVars == <<variant, mix, prompt, client, stack, lifecycle, p, procTerminated, t, t_stop, events,
              pausing_keep, handlers, status, nTracks, nCommands, mpd>>

Quietly ==
    /\ done' = <<>>
    /\ lastReport' = NoReport
    /\ UNCHANGED mainVars

Monitors == 1..Len(thr)

AtMon(i, pc) ==
    /\ variant = "mplayer"
    /\ ~killed
    /\ thr[i].pc = pc

\* the thread function returns, or an exception ends it
Exit(i) ==
    [thr EXCEPT ![i] = [IF i = t THEN @ ELSE Forgotten(@)
                          EXCEPT !.pc = "done", !.ended = FALSE, !.pos = NoPos]]

\* as ReachedThreshold, but a tenth of a second early
ReachedThreshold_early(pos) == pos >= ReportAfter * 10 - 1

\* player.py 177: float(match.group(1)) >= 30
ReachedThreshold(pos) == pos >= ReportAfter * 10

\* player.py 175-177: the chunk is searched for a position only if the track
\* was not reported yet
Reports(i, pos) == ~thr[i].reported /\ pos # NoPos /\ ReachedThreshold(pos)

\* player.py 167-168: while not stop_event.is_set(); if not reported.  The
\* wait of 0.5 s at the end of a round (180) is part of this step
playback_status_Loop(i) ==
    /\ AtMon(i, "loop")
    /\ thr' = IF events[thr[i].ev] THEN Exit(i)
              ELSE [thr EXCEPT ![i].pc = IF ~thr[i].reported THEN "lock" ELSE "read"]
    /\ Silent
    /\ UNCHANGED <<write_lock, pending, killed>>
    /\ Quietly

\* as playback_status_Acquire, but the thread goes on without the lock
playback_status_Acquire_unlocked(i) ==
    /\ AtMon(i, "lock")
    /\ thr' = [thr EXCEPT ![i].pc = "write"]
    /\ Silent
    /\ UNCHANGED <<write_lock, pending, killed>>
    /\ Quietly

\* player.py 169: with write_lock
playback_status_Acquire(i) ==
    /\ AtMon(i, "lock")
    /\ write_lock = "free"
    /\ write_lock' = "monitor"
    /\ thr' = [thr EXCEPT ![i].pc = "write"]
    /\ Silent
    /\ UNCHANGED <<pending, killed>>
    /\ Quietly

\* player.py 170: process.write(...); an exception ends the thread
playback_status_Write(i) ==
    /\ AtMon(i, "write")
    /\ write_lock' = "free"
    /\ IF ProcUsable(thr[i].proc)
       THEN /\ stdin' = [cmd |-> "get_time_pos", prefix |-> pausing_keep, arg |-> 0,
                        text |-> <<>>]
            /\ thr' = [thr EXCEPT ![i].pc = "read"]
       ELSE /\ stdin' = NoLine
            /\ thr' = Exit(i)
    /\ lastReport' = NoReport
    /\ emitted' = NoSignal
    /\ UNCHANGED <<pending, killed>>
    /\ Quietly

\* player.py 171-177: stdout = process.read(), and what the chunk holds: the
\* end-of-stream marker, or else a first position value (or none)
playback_status_Read(i) ==
    /\ AtMon(i, "read")
    /\ IF ProcUsable(thr[i].proc)
       THEN \E eof \in BOOLEAN, pos \in PosValues \cup {NoPos} :
              thr' = IF eof THEN [thr EXCEPT ![i].pc = "eof"]
                     ELSE IF Reports(i, pos)
                          THEN [thr EXCEPT ![i].pc = "pos", ![i].pos = pos]
                          ELSE [thr EXCEPT ![i].pc = "loop"]
       ELSE thr' = Exit(i)
    /\ Silent
    /\ UNCHANGED <<write_lock, pending, killed>>
    /\ Quietly

\* player.py 173-177: 'GLOBAL: EOF code: 1' in stdout: os.kill(..., SONG_ENDED),
\* and what else the chunk with the marker holds: a first position value or none
playback_status_SongEnded(i) ==
    /\ AtMon(i, "eof")
    /\ os_kill("SIGUSR1", thr[i].track, i)
    /\ \E pos \in PosValues \cup {NoPos} :
         thr' = IF Reports(i, pos)
                THEN [thr EXCEPT ![i].pc = "pos", ![i].pos = pos, ![i].ended = TRUE]
                ELSE [thr EXCEPT ![i].pc = "loop", ![i].ended = TRUE]
    /\ stdin' = NoLine
    /\ lastReport' = NoReport
    /\ UNCHANGED write_lock
    /\ Quietly

\* as playback_status_Report, but reported is not set
playback_status_Report_once_more(i) ==
    /\ AtMon(i, "pos")
    /\ os_kill("SIGUSR2", thr[i].track, i)
    /\ thr' = [thr EXCEPT ![i].registered = TRUE, ![i].pos = NoPos, ![i].pc = "loop"]
    /\ stdin' = NoLine
    /\ lastReport' = NoReport
    /\ UNCHANGED write_lock
    /\ Quietly

\* player.py 178-179: os.kill(..., REGISTER_SONG); reported = True
playback_status_Report(i) ==
    /\ AtMon(i, "pos")
    /\ os_kill("SIGUSR2", thr[i].track, i)
    /\ thr' = [thr EXCEPT ![i].reported = TRUE, ![i].registered = TRUE, ![i].pos = NoPos,
                          ![i].pc = "loop"]
    /\ stdin' = NoLine
    /\ lastReport' = NoReport
    /\ UNCHANGED write_lock
    /\ Quietly

\* ================================================================== session
\* -------------------------------------------------- PlayCommand.__init__
\* client.py 477
PlayCommand_MPlayer ==
    /\ At("PlayCommand", "begin")
    /\ Step(Call("signals", Frame("MPlayer", "binary", 0, 0)))
    /\ Silent
    /\ UNCHANGED backendVars
    /\ UNCHANGED sessionVars

\* client.py 480-481
PlayCommand_RegisterHandlers ==
    /\ At("PlayCommand", "signals")
    /\ handlers' = [sig \in {"SIGUSR1", "SIGUSR2"} |-> "handler"]
    /\ pending' = <<>>
    /\ Step(Goto("play_mix"))
    /\ Silent
    /\ UNCHANGED backendVars
    /\ UNCHANGED <<variant, mix, prompt, client, status, nTracks, nCommands, killed, mpd>>

\* the API hands out the next track
NextTrack == nTracks + 1

\* the session asks the API for a track and makes it its current track
TakeTrack ==
    /\ nTracks < MaxTracks
    /\ status' = NextTrack
    /\ nTracks' = NextTrack
    /\ UNCHANGED <<variant, mix, prompt, client, handlers, pending, nCommands, killed, mpd>>

\* client.py 484
PlayCommand_PlayMix ==
    /\ At("PlayCommand", "play_mix")
    /\ TakeTrack
    /\ Step(Goto("load"))
    /\ Silent
    /\ UNCHANGED backendVars

\* client.py 485
PlayCommand_Load ==
    /\ At("PlayCommand", "load")
    /\ Step(Call("end", Frame("load", "begin", status, 0)))
    /\ Silent
    /\ UNCHANGED backendVars
    /\ UNCHANGED sessionVars

\* client.py 486-488
PlayCommand_Return ==
    /\ At("PlayCommand", "end")
    /\ Ret
    /\ Silent
    /\ UNCHANGED backendVars
    /\ UNCHANGED sessionVars

\* -------------------------------------------- PlayCommand._song_end_handler
\* client.py 508-512 and 576-580: the session switches to the next track (of
\* this mix, or the first one of the next mix)
song_end_handler_NextTrack ==
    /\ At("_song_end_handler", "begin")
    /\ TakeTrack
    /\ \E at_last_track \in BOOLEAN :
         Step([stack EXCEPT ![Len(stack)].pc = "load",
                            ![Len(stack)].l = IF at_last_track THEN "last" ELSE "notlast"])
    /\ Silent
    /\ UNCHANGED backendVars

\* client.py 514 and 581
song_end_handler_Load ==
    /\ At("_song_end_handler", "load")
    /\ Step(Call("load_ret", Frame("load", "begin", status, 0)))
    /\ Silent
    /\ UNCHANGED backendVars
    /\ UNCHANGED sessionVars

\* client.py 515-517: except RuntimeError: self.do_stop()
song_end_handler_Except ==
    /\ At("_song_end_handler", "except")
    /\ Step(Call("end", Frame("do_stop", "sigusr1", 0, 0)))
    /\ Silent
    /\ UNCHANGED backendVars
    /\ UNCHANGED sessionVars

\* client.py 518-520
song_end_handler_Return ==
    /\ At("_song_end_handler", "load_ret") \/ At("_song_end_handler", "end")
    /\ Ret
    /\ Silent
    /\ UNCHANGED backendVars
    /\ UNCHANGED sessionVars

\* ----------------------------------------- PlayCommand._song_report_handler
\* client.py 481, 522-527: the handler registered for REGISTER_SONG is entered
\* and reports the session's current track.  The handler is this one call,
\* whose arguments are evaluated first, so it is taken as one step
song_report_handler_Report ==
    /\ Deliverable("SIGUSR2")
    /\ lastReport' = [track |-> status, from |-> pending[LowestPending].track]
    /\ pending' = Without(pending, LowestPending)
    /\ done' = <<>>
    /\ stdin' = NoLine
    /\ emitted' = NoSignal
    /\ UNCHANGED <<stack, lifecycle, write_lock>>
    /\ UNCHANGED backendVars
    /\ UNCHANGED <<variant, mix, prompt, client, handlers, status, nTracks, nCommands, killed, mpd>>

\* ------------------------------------------------------ PlayCommand.do_stop
\* client.py 541
do_stop_ResetSigusr1 ==
    /\ At("do_stop", "sigusr1")
    /\ handlers' = [handlers EXCEPT !["SIGUSR1"] = "dfl"]
    /\ pending' = Untrip("SIGUSR1")
    /\ Step(Goto("sigusr2"))
    /\ Silent
    /\ UNCHANGED backendVars
    /\ UNCHANGED <<variant, mix, prompt, client, status, nTracks, nCommands, killed, mpd>>

\* client.py 542
do_stop_ResetSigusr2 ==
    /\ At("do_stop", "sigusr2")
    /\ handlers' = [handlers EXCEPT !["SIGUSR2"] = "dfl"]
    /\ pending' = Untrip("SIGUSR2")
    /\ Step(Goto("stop"))
    /\ Silent
    /\ UNCHANGED backendVars
    /\ UNCHANGED <<variant, mix, prompt, client, status, nTracks, nCommands, killed, mpd>>

\* client.py 546
do_stop_Stop ==
    /\ At("do_stop", "stop")
    /\ Step(Call("stop_ret", Frame("stop", "begin", 0, 0)))
    /\ Silent
    /\ UNCHANGED backendVars
    /\ UNCHANGED sessionVars

\* client.py 547
do_stop_Terminate ==
    /\ At("do_stop", "stop_ret")
    /\ Step(Call("terminate_ret", TerminateFrame))
    /\ Silent
    /\ UNCHANGED backendVars
    /\ UNCHANGED sessionVars

\* client.py 548-552
do_stop_Return ==
    /\ At("do_stop", "terminate_ret")
    /\ Ret
    /\ Silent
    /\ UNCHANGED backendVars
    /\ UNCHANGED sessionVars

\* ------------------------------------------------- PlayCommand.do_next_song
\* client.py 567
do_next_song_SkipTrack ==
    /\ At("do_next_song", "begin")
    /\ TakeTrack
    /\ Step(Goto("load"))
    /\ Silent
    /\ UNCHANGED backendVars

\* client.py 568
do_next_song_Load ==
    /\ At("do_next_song", "load")
    /\ Step(Call("end", Frame("load", "begin", status, 0)))
    /\ Silent
    /\ UNCHANGED backendVars
    /\ UNCHANGED sessionVars

\* client.py 569
do_next_song_Return ==
    /\ At("do_next_song", "end")
    /\ Ret
    /\ Silent
    /\ UNCHANGED backendVars
    /\ UNCHANGED sessionVars

\* ------------------------------------------------- calls by the foreground
\* the main thread is at the prompt of a constructed session
Prompt ==
    /\ variant = "mplayer"
    /\ ~killed
    /\ stack = <<>>
    /\ pending = <<>>
    /\ lifecycle = "ready"
    /\ nCommands < MaxCommands

Enter(f) ==
    /\ Step(<<f>>)
    /\ nCommands' = nCommands + 1
    /\ Silent
    /\ UNCHANGED backendVars
    /\ UNCHANGED <<variant, mix, prompt, client, handlers, pending, status, nTracks, killed, mpd>>

\* client.py 557, 574: next_song and next_mix
cmd_next_song == Prompt /\ nTracks < MaxTracks /\ Enter(Frame("do_next_song", "begin", 0, 0))

\* client.py 531
cmd_pause == Prompt /\ Enter(Frame("playpause", "begin", 0, 0))

\* client.py 587
cmd_volume == Prompt /\ \E amount \in Amounts : Enter(Frame("volume", "begin", amount, 0))

\* client.py 537, 490-495: stop, end of input and Ctrl+C
cmd_stop == Prompt /\ Enter(Frame("do_stop", "sigusr1", 0, 0))

\* player.py 224-226: the destructor of the backend of a session that was not
\* constructed or that has left play mode
MPlayer_del ==
    /\ variant = "mplayer"
    /\ ~killed
    /\ stack = <<>>
    /\ pending = <<>>
    /\ lifecycle \in {"failed", "exited"}
    /\ stack' = <<TerminateFrame>>
    /\ lifecycle' = "collected"
    /\ done' = <<>>
    /\ Silent
    /\ UNCHANGED write_lock
    /\ UNCHANGED backendVars
    /\ UNCHANGED sessionVars

\* ===================================================== idle-protocol backend
\* what a step of the idle-protocol backend leaves alone
slaveVars == <<variant, mix, prompt, client, stack, done, lifecycle, p, procTerminated, t, t_stop, events, thr,
               write_lock, stdin, pausing_keep, handlers, status, nTracks, nCommands,
               lastReport>>

\* a step that sends no signal
MpdRest ==
    /\ emitted' = NoSignal
    /\ UNCHANGED <<pending, killed>>
    /\ UNCHANGED slaveVars

Mpd == variant = "mpd" /\ ~killed

\* q is the queue of the daemon when the call was made; stopped tells that the
\* clear of the call has stopped a track that was playing, with no change of
\* the player state left that the status thread had not seen
NoCall == [op |-> "", pc |-> "", a |-> 0, g |-> FALSE, q |-> <<>>, stopped |-> FALSE]

NoSent == [cmd |-> "", arg |-> 0]

NoResult == [op |-> "", a |-> 0, exc |-> "", g |-> FALSE, q |-> <<>>]

\* sent and result tell what the latest step sent to the daemon and which
\* call it ended
Quiet == [mpd EXCEPT !.sent = NoSent, !.result = NoResult]

MpdSend(cmd, arg) == [cmd |-> cmd, arg |-> arg]

\* what the daemon does with a command it accepts
Daemon(cmd, arg) ==
    CASE cmd = "clear" -> [Quiet EXCEPT !.queue = <<>>, !.state = "stop", !.songid = FALSE,
                                      !.changed = @ \/ mpd.state # "stop"]
      [] cmd = "add"   -> [Quiet EXCEPT !.queue = Append(@, arg)]
      [] cmd = "play"  -> IF mpd.queue = <<>> THEN Quiet
                          ELSE [Quiet EXCEPT !.state = "play", !.songid = TRUE,
                                           !.changed = @ \/ mpd.state # "play"]
      [] cmd = "pause" -> IF mpd.state = "stop" THEN Quiet
                          ELSE [Quiet EXCEPT !.state = IF @ = "play" THEN "pause" ELSE "play",
                                           !.changed = TRUE]
      [] cmd = "stop"  -> [Quiet EXCEPT !.state = "stop", !.changed = @ \/ mpd.state # "stop"]
      [] OTHER         -> Quiet

\* as InitFailed, but the status thread is started before the daemon is tried
InitFailed_thread_first(m, exc) ==
    [m EXCEPT !.tpc = "connect",
              !.result = [op |-> "MPDPlayer", a |-> 0, exc |-> exc, g |-> FALSE, q |-> <<>>]]

\* mpd.py 144-145: an exception leaves __init__ before the status thread is
\* made (147-148)
InitFailed(m, exc) ==
    [m EXCEPT !.result = [op |-> "MPDPlayer", a |-> 0, exc |-> exc, g |-> FALSE, q |-> <<>>]]

\* mpd.py 130-148: MPDPlayer.__init__ clears the playlist within connection()
\* and starts the status thread; a failed connect raises InitializationError,
\* and a clear that the daemon rejects raises the library's CommandError
MPDPlayer_init ==
    /\ Mpd
    /\ lifecycle = "init"
    /\ \E connected, accepted \in BOOLEAN :
         IF connected /\ accepted
         THEN /\ mpd' = [Daemon("clear", 0) EXCEPT !.sent = MpdSend("clear", 0),
                                                   !.tpc = "connect"]
              /\ lifecycle' = "ready"
         ELSE /\ mpd' = IF connected
                        THEN InitFailed([Quiet EXCEPT !.sent = MpdSend("clear", 0)],
                                        "mpd.CommandError")
                        ELSE InitFailed(Quiet, "InitializationError")
              /\ lifecycle' = "failed"
    /\ Silent
    /\ UNCHANGED <<variant, mix, prompt, client, stack, done, write_lock, handlers, pending, status, nTracks,
                   nCommands, killed>>
    /\ UNCHANGED backendVars

MpdIdle == Mpd /\ lifecycle = "ready" /\ mpd.fg.op = ""

MpdEnter(op, a) ==
    /\ mpd' = [Quiet EXCEPT !.fg = [op |-> op, pc |-> "connect", a |-> a, g |-> mpd.terminated,
                               q |-> mpd.queue, stopped |-> FALSE]]
    /\ MpdRest

\* mpd.py 179-189
MPDPlayer_load == MpdIdle /\ \E url \in 1..MaxTracks : MpdEnter("load", url)

\* mpd.py 203-207
MPDPlayer_playpause == MpdIdle /\ MpdEnter("playpause", 0)

\* mpd.py 212-216
MPDPlayer_stop == MpdIdle /\ MpdEnter("stop", 0)

\* mpd.py 221-235: the amount is checked before connection() is entered
MPDPlayer_volume ==
    /\ MpdIdle
    /\ \E amount \in Amounts :
         IF ValidAmount(amount)
         THEN MpdEnter("volume", amount)
         ELSE /\ mpd' = [Quiet EXCEPT !.result = [op |-> "volume", a |-> amount,
                                                exc |-> "ValueError", g |-> mpd.terminated,
                                                q |-> mpd.queue]]
              /\ MpdRest

\* mpd.py 239-244
MPDPlayer_terminate ==
    /\ MpdIdle
    /\ mpd' = [Quiet EXCEPT !.stop = TRUE, !.terminated = TRUE,
                          !.result = [op |-> "terminate", a |-> 0, exc |-> "ok",
                                      g |-> mpd.terminated, q |-> mpd.queue]]
    /\ MpdRest

\* as MpdFinish, but the command client stays connected
MpdFinish_keeps_connection(m, exc) ==
    [m EXCEPT !.fg = NoCall,
              !.result = [op |-> mpd.fg.op, a |-> mpd.fg.a, exc |-> exc, g |-> mpd.fg.g,
                          q |-> mpd.fg.q]]

\* mpd.py 163-172: the call ends; the finally clause of connection() closes
\* and disconnects the command client
MpdFinish(m, exc) ==
    [m EXCEPT !.conn = FALSE, !.fg = NoCall,
              !.result = [op |-> mpd.fg.op, a |-> mpd.fg.a, exc |-> exc, g |-> mpd.fg.g,
                          q |-> mpd.fg.q]]

\* the commands a call sends, in order
Commands(op) ==
    CASE op = "load"      -> <<"clear", "add", "play">>
      [] op = "playpause" -> <<"pause">>
      [] op = "stop"      -> <<"stop">>
      [] op = "volume"    -> <<"setvol">>

\* mpd.py 151-172: connection(): connect, or InitializationError
MPDPlayer_connection ==
    /\ Mpd
    /\ mpd.fg.pc = "connect"
    /\ \E connected \in BOOLEAN :
         mpd' = IF connected
                THEN [Quiet EXCEPT !.conn = TRUE, !.fg.pc = "1"]
                ELSE MpdFinish(Quiet, "InitializationError")
    /\ MpdRest

PcNum(pc) == CASE pc = "1" -> 1 [] pc = "2" -> 2 [] pc = "3" -> 3

PcStr(n) == CASE n = 1 -> "1" [] n = 2 -> "2" [] n = 3 -> "3"

\* mpd.py 190-200, 208-209, 217-218, 236-237 within catch_mpd_error (27-47):
\* the next command of the call is sent; the daemon accepts it, or rejects
\* it and the call raises CommandError; the connection is closed at the end
MPDPlayer_command ==
    /\ Mpd
    /\ mpd.fg.pc \in {"1", "2", "3"}
    /\ LET n == PcNum(mpd.fg.pc)
           cmds == Commands(mpd.fg.op)
           sentm == [Quiet EXCEPT !.sent = MpdSend(cmds[n], mpd.fg.a)]
       IN \E accepted \in BOOLEAN :
            mpd' = IF ~accepted THEN MpdFinish(sentm, "CommandError")
                   ELSE LET m == [Daemon(cmds[n], mpd.fg.a) EXCEPT !.sent = sentm.sent]
                        IN IF n = Len(cmds) THEN MpdFinish(m, "ok")
                           ELSE [m EXCEPT !.fg.pc = PcStr(n + 1),
                                          !.fg.stopped = /\ cmds[n] = "clear"
                                                         /\ mpd.state = "play"
                                                         /\ ~mpd.changed]
    /\ MpdRest

\* mpd.py 79-88: the status thread connects and stores the old state; an
\* exception of connect() is not caught and ends the thread
StatusThread_run ==
    /\ Mpd
    /\ mpd.tpc = "connect"
    /\ \E connected \in BOOLEAN :
         mpd' = IF connected
                THEN [Quiet EXCEPT !.oldstate = mpd.state, !.changed = FALSE, !.tpc = "check"]
                ELSE [Quiet EXCEPT !.tpc = "crashed"]
    /\ MpdRest

\* mpd.py 95: while not self._stop
StatusThread_check ==
    /\ Mpd
    /\ mpd.tpc = "check"
    /\ mpd' = [Quiet EXCEPT !.tpc = IF mpd.stop THEN "exited" ELSE "select"]
    /\ MpdRest

\* as SongHasEnded, but the song id of the status is not looked at
SongHasEnded_any_stop(oldstate, newstate, songid) ==
    oldstate = "play" /\ newstate = "stop"

\* mpd.py 106: the condition under which the song counts as ended
SongHasEnded(oldstate, newstate, songid) ==
    oldstate = "play" /\ newstate = "stop" /\ ~songid

\* mpd.py 97-111: select() reports a change of the player and the status is
\* queried, or select() times out
StatusThread_select ==
    /\ Mpd
    /\ mpd.tpc = "select"
    /\ IF mpd.changed
       THEN /\ mpd' = [Quiet EXCEPT !.oldstate = mpd.state, !.changed = FALSE, !.tpc = "check"]
            /\ IF SongHasEnded(mpd.oldstate, mpd.state, mpd.songid)
               THEN os_kill("SIGUSR1", 0, 0)
               ELSE emitted' = NoSignal /\ UNCHANGED <<pending, killed>>
       ELSE /\ mpd' = [Quiet EXCEPT !.tpc = "check"]
            /\ emitted' = NoSignal
            /\ UNCHANGED <<pending, killed>>
    /\ UNCHANGED slaveVars

\* mpd.py 97-111: the connection of the status thread is lost; the
\* ConnectionError of noidle(), status() or send_idle() is not caught and ends
\* the thread
StatusThread_lost ==
    /\ Mpd
    /\ mpd.tpc = "select"
    /\ mpd' = [Quiet EXCEPT !.tpc = "crashed"]
    /\ MpdRest

\* the daemon reaches the end of its queue
Daemon_TrackEnds ==
    /\ Mpd
    /\ mpd.state = "play"
    /\ mpd' = [Quiet EXCEPT !.state = "stop", !.songid = FALSE, !.changed = TRUE]
    /\ MpdRest

\* the session's handler for SONG_ENDED is run
Mpd_RunHandler ==
    /\ Mpd
    /\ pending # <<>>
    /\ pending' = Tail(pending)
    /\ mpd' = Quiet
    /\ emitted' = NoSignal
    /\ UNCHANGED killed
    /\ UNCHANGED slaveVars

\* ================================================================ the system
InitMpd ==
    [stop |-> FALSE, terminated |-> FALSE, tpc |-> "none", oldstate |-> "stop",
     state |-> "stop", songid |-> FALSE, queue |-> <<>>, changed |-> FALSE, conn |-> FALSE,
     sent |-> NoSent, fg |-> NoCall, result |-> NoResult]

\* ------------------------------------------------------------- get_prompt
\* client.py 23
DEFAULT_PROMPT == <<Text("("), Text("8tracks"), Text(")> ")>>

\* seq[:n]
Prefix(seq, n) == SubSeq(seq, 1, IF Len(seq) < n THEN Len(seq) ELSE n)

\* as get_prompt, but a name of NAME_MAX_LENGTH characters is shortened too
get_prompt_inclusive(name) ==
    LET short == IF Len(name) >= NAME_MAX_LENGTH
                 THEN Prefix(name, NAME_MAX_LENGTH) \o Text("...")
                 ELSE Prefix(name, NAME_MAX_LENGTH)
    IN  DEFAULT_PROMPT[1] \o (DEFAULT_PROMPT[2] \o Text(":") \o short) \o DEFAULT_PROMPT[3]

\* client.py 26-48: the name is cut to NAME_MAX_LENGTH characters, '...' is
\* added if it was longer, ':' and the name are added to the second part, and
\* the parts are joined
get_prompt(name) ==
    LET short == IF Len(name) > NAME_MAX_LENGTH
                 THEN Prefix(name, NAME_MAX_LENGTH) \o Text("...")
                 ELSE Prefix(name, NAME_MAX_LENGTH)
    IN  DEFAULT_PROMPT[1] \o (DEFAULT_PROMPT[2] \o Text(":") \o short) \o DEFAULT_PROMPT[3]

\* a mix name of n characters; the characters after the first
\* NAME_MAX_LENGTH differ from those before
Name(n, c) == [i \in 1..n |-> IF i > NAME_MAX_LENGTH THEN "+" ELSE c]

MixNames == {Name(n, c) : n \in 0..MaxName, c \in {"a", "b"}}

\* client.py 363, 578: prompt = get_prompt(mix)
get_prompt_Call ==
    /\ prompt = <<>>
    /\ prompt' = get_prompt(mix)
    /\ UNCHANGED <<variant, mix, client, stack, done, lifecycle, p, procTerminated, t, t_stop, events,
                   thr, write_lock, stdin, pausing_keep, handlers, pending, emitted, status,
                   nTracks, nCommands, lastReport, killed, mpd>>

\* ------------------------------------------------------------------ Client
\* every other variable is left as it is
ClientOnly ==
    UNCHANGED <<variant, mix, prompt, stack, done, lifecycle, p, procTerminated, t, t_stop,
                events, thr, write_lock, stdin, pausing_keep, handlers, pending, emitted,
                status, nTracks, nCommands, lastReport, killed, mpd>>

\* api.py 22, client.py 133-143: the fields after preloop.  play_token 0 is
\* None; token_requests counts the requests of sets/new.json; calls counts
\* the calls of the methods that use a play token and request is the request
\* that the latest of them has made with the token
\* client.py 133-144: no mix is cached and nothing has been searched for.
\* A cached mix is the query that has returned it; the search term None is "",
\* total_pages and _next_page None are 0; lastcmd is the command of the last
\* line that was not empty; displayed is the page that the latest command
\* has displayed, 0 if it has displayed none; running is false when an
\* exception has ended cmdloop.  config is the configuration file, which
\* ConfigFile writes at each assignment (client.py 51-107), with the default
\* '' for every key: the first preloop sets results_per_page only (client.py
\* 146-147); _logged_in None is FALSE
NoMix == [term |-> "", type |-> ""]

InitClient ==
    [play_token |-> 0, token_requests |-> 0, calls |-> 0,
     request |-> [command |-> "", token |-> 0],
     mixes |-> [i \in 1..(PerPage * MaxPages) |-> NoMix],
     search_term |-> "", query_type |-> "", search_results_page |-> 1,
     total_pages |-> 0, next_page |-> 0,
     lastline_is_empty |-> FALSE, lastcmd |-> "", displayed |-> 0, running |-> TRUE,
     config |-> [autologin |-> "", username |-> "", password |-> "",
                 results_sorting |-> ""],
     user_name |-> "", password |-> "", logged_in |-> FALSE]

\* as ObtainPlayToken, but the cached token is not looked at
ObtainPlayToken_always(c, force_refresh, ok) ==
    IF ok THEN [c EXCEPT !.play_token = c.token_requests + 1, !.token_requests = @ + 1]
    ELSE [c EXCEPT !.token_requests = @ + 1]

\* api.py 96-99: _obtain_play_token: sets/new.json is requested if no token
\* is cached or force_refresh is set; each request that succeeds returns a
\* new token, one that fails (api.py 59-67) raises and caches nothing
ObtainPlayToken(c, force_refresh, ok) ==
    IF c.play_token = 0 \/ force_refresh
    THEN IF ok THEN [c EXCEPT !.play_token = c.token_requests + 1, !.token_requests = @ + 1]
         ELSE [c EXCEPT !.token_requests = @ + 1]
    ELSE c

\* api.py 215-233, 285-322: play_mix, next_track, skip_track, report_track and
\* next_mix: the play token is obtained and the request is made with it
EightTracksAPI_request ==
    /\ client.calls < MaxRequests
    /\ \E command \in {"play", "next", "skip", "report", "next_mix"}, ok \in BOOLEAN :
         LET c == ObtainPlayToken(client, FALSE, ok)
         IN  client' = IF c.play_token = 0
                       THEN [c EXCEPT !.calls = @ + 1, !.request = InitClient.request]
                       ELSE [c EXCEPT !.calls = @ + 1,
                                      !.request = [command |-> command,
                                                   token |-> c.play_token]]
    /\ ClientOnly

\* the search terms that are typed, and the commands with their query types
Terms == {"a", "b"}
QueryTypes == [search |-> "keyword", search_user |-> "user"]

\* api.py 174-176: what search_mix returns: the request fails, or it returns
\* a page of n mixes and the number of pages; the next page is None (0) on
\* the last page
SearchResults ==
    {[ok |-> FALSE, n |-> 0, total_pages |-> 0]}
        \cup [ok : {TRUE}, n : 0..PerPage, total_pages : 1..MaxPages]

\* client.py 415-428: search_request up to the request
search_request(c, s, query_type) ==
    [c EXCEPT !.search_results_page =
                  IF \/ c.search_term # s
                     \/ c.query_type # query_type
                     \/ ~c.lastline_is_empty
                  THEN 1 ELSE @,
              !.query_type = query_type,
              !.search_term = s]

\* client.py 430-462: display_search_results: the cache is reset if the page
\* is 0, which no page is; the n mixes are cached from the first index of the
\* page on.  The page None (0) raises TypeError at line 447
display_search_results(c, n) ==
    IF c.search_results_page = 0
    THEN [c EXCEPT !.running = FALSE]
    ELSE LET start_page_no == (c.search_results_page - 1) * PerPage + 1
         IN [c EXCEPT !.mixes =
                 [i \in DOMAIN c.mixes |->
                     IF i >= start_page_no /\ i < start_page_no + n
                     THEN [term |-> c.search_term, type |-> c.query_type]
                     ELSE c.mixes[i]],
                     !.displayed = c.search_results_page]

\* client.py 205-245: do_search and do_search_user with a term: the request,
\* then the display.  search_user catches the HTTPError of a request that
\* fails, search lets it end the command loop
Search(c, s, query_type, res) ==
    LET c1 == search_request(c, s, query_type)
    IN  IF res.ok
        THEN display_search_results(
                 [c1 EXCEPT !.total_pages = res.total_pages,
                            !.next_page = IF c1.search_results_page < res.total_pages
                                          THEN c1.search_results_page + 1 ELSE 0],
                 res.n)
        ELSE [c1 EXCEPT !.running = (query_type = "user")]

\* client.py 159-162, 205-245: a search command is entered
do_search ==
    /\ client.running
    /\ \E cmd \in DOMAIN QueryTypes, s \in Terms, res \in SearchResults :
         client' = Search([client EXCEPT !.lastline_is_empty = FALSE,
                                         !.lastcmd = cmd,
                                         !.displayed = 0],
                          s, QueryTypes[cmd], res)
    /\ ClientOnly

\* client.py 159-201: an empty line is entered: after a search command with
\* pages left, show_next_page searches the same term again for the next page
emptyline ==
    /\ client.running
    /\ \E res \in SearchResults :
         LET c == [client EXCEPT !.lastline_is_empty = TRUE, !.displayed = 0]
         IN  client' =
                 IF /\ c.lastcmd \in DOMAIN QueryTypes
                    /\ c.search_results_page < c.total_pages
                 THEN Search([c EXCEPT !.search_results_page = c.next_page],
                             c.search_term, QueryTypes[c.lastcmd], res)
                 ELSE c
    /\ ClientOnly

\* client.py 381: what strip() makes of the user names that are typed
strip(s) == CASE s = " v" -> "v" [] s = "w " -> "w" [] OTHER -> s

\* as Login, but the credentials are stored whatever autologin is
Login_stores_always(c, s, password, ok) ==
    [c EXCEPT !.user_name = strip(s), !.password = password, !.logged_in = ok,
              !.config.username = strip(s), !.config.password = password]

\* client.py 381-396: do_login with a user name: the name and the password
\* are kept, the user token is requested, and the credentials are stored if
\* autologin is on, whether the login has succeeded or not
Login(c, s, password, ok) ==
    LET c1 == [c EXCEPT !.user_name = strip(s), !.password = password,
                        !.logged_in = ok]
    IN  IF c1.config.autologin # ""
        THEN [c1 EXCEPT !.config.username = c1.user_name,
                        !.config.password = c1.password]
        ELSE c1

\* client.py 371-396: login <name>, the password read by getpass()
do_login ==
    /\ client.running
    /\ \E s \in {"u", " v", "w "}, password \in {"", "x", "y"}, ok \in BOOLEAN :
         client' = Login(client, s, password, ok)
    /\ ClientOnly

\* client.py 260-288: set <setting> <param>: sorting takes one of three
\* orders; autologin yes stores the name and the password of the last login,
\* autologin no empties the three keys; anything else prints the help
do_set ==
    /\ client.running
    /\ \E setting \in {"sorting", "autologin"}, param \in {"yes", "no", "recent", "hot"} :
         client' =
             CASE setting = "sorting" /\ param \in {"recent", "popular", "hot"} ->
                      [client EXCEPT !.config.results_sorting = param]
               [] setting = "autologin" /\ param = "yes" ->
                      [client EXCEPT !.config.autologin = "True",
                                     !.config.username = client.user_name,
                                     !.config.password = client.password]
               [] setting = "autologin" /\ param = "no" ->
                      [client EXCEPT !.config.autologin = "",
                                     !.config.password = "",
                                     !.config.username = ""]
               [] OTHER -> client
    /\ ClientOnly

\* client.py 133-157: the program is started again: the fields are new, the
\* configuration is the one in the file, in which results_per_page is set, so
\* that a sorting order that is not set becomes 'hot'; the stored user is
\* logged in if autologin is on
preloop ==
    /\ \E ok \in BOOLEAN :
         LET c == [InitClient EXCEPT
                       !.config = [client.config EXCEPT
                                       !.results_sorting = IF @ = "" THEN "hot" ELSE @]]
         IN  client' =
                 IF /\ c.config.username # ""
                    /\ c.config.password # ""
                    /\ c.config.autologin # ""
                 THEN Login(c, c.config.username, c.config.password, ok)
                 ELSE c
    /\ ClientOnly

\* ---------------------------------------------------------- initial state
InitSession ==
    /\ variant \in {"mplayer", "mpd"}
    /\ stack = IF variant = "mplayer"
               THEN <<[op |-> "PlayCommand", pc |-> "begin", a |-> 0, l |-> 0, h |-> FALSE,
                       g |-> "none"]>>
               ELSE <<>>
    /\ done = <<>>
    /\ lifecycle = "init"
    /\ p = "none"
    /\ procTerminated = FALSE
    /\ t = 0
    /\ t_stop = 0
    /\ events = <<>>
    /\ thr = <<>>
    /\ write_lock = "free"
    /\ stdin = NoLine
    /\ pausing_keep = ""
    /\ handlers = [sig \in {"SIGUSR1", "SIGUSR2"} |->
                      IF variant = "mplayer" THEN "dfl" ELSE "handler"]
    /\ pending = <<>>
    /\ emitted = NoSignal
    /\ status = 0
    /\ nTracks = 0
    /\ nCommands = 0
    /\ lastReport = NoReport
    /\ killed = FALSE
    /\ mpd = InitMpd

\* the session is given no mix name of its own: its prompt is not looked at
Init == InitSession /\ mix = <<>> /\ prompt = <<>> /\ client = InitClient

MainStep ==
    \/ MPlayer_CheckBinary \/ MPlayer_Spawn \/ MPlayer_WaitBanner \/ MPlayer_Probe
    \/ MPlayer_ProbeWait
    \/ send_command_Acquire \/ send_command_Write
    \/ stop_background_thread_Check \/ stop_background_thread_Set
    \/ stop_background_thread_Join \/ stop_background_thread_Joined
    \/ load_StopPrevious \/ load_SendLoadfile \/ load_WaitStarted \/ load_RaiseTimeout
    \/ load_NewEvent \/ load_ThreadArgs \/ load_NewThread \/ load_StartThread
    \/ playpause_Send \/ playpause_Return
    \/ stop_Send \/ stop_StopThread \/ stop_Return
    \/ volume_Check \/ volume_Return
    \/ terminate_Check \/ terminate_Kill \/ terminate_Mark
    \/ PlayCommand_MPlayer \/ PlayCommand_RegisterHandlers \/ PlayCommand_PlayMix
    \/ PlayCommand_Load \/ PlayCommand_Return
    \/ song_end_handler_NextTrack \/ song_end_handler_Load \/ song_end_handler_Except
    \/ song_end_handler_Return
    \/ song_report_handler_Report
    \/ do_stop_ResetSigusr1 \/ do_stop_ResetSigusr2 \/ do_stop_Stop \/ do_stop_Terminate
    \/ do_stop_Return
    \/ do_next_song_SkipTrack \/ do_next_song_Load \/ do_next_song_Return
    \/ cmd_next_song \/ cmd_pause \/ cmd_volume \/ cmd_stop
    \/ MPlayer_del
    \/ RunHandler

\* player.py 156-180: a step of the monitor thread i
playback_status(i) ==
    \/ playback_status_Loop(i)
    \/ playback_status_Acquire(i)
    \/ playback_status_Write(i)
    \/ playback_status_Read(i)
    \/ playback_status_SongEnded(i)
    \/ playback_status_Report(i)

MonitorStep == \E i \in Monitors : playback_status(i)

MpdStep ==
    \/ MPDPlayer_init \/ MPDPlayer_load \/ MPDPlayer_playpause \/ MPDPlayer_stop
    \/ MPDPlayer_volume \/ MPDPlayer_terminate \/ MPDPlayer_connection \/ MPDPlayer_command
    \/ StatusThread_run \/ StatusThread_check \/ StatusThread_select
    \/ StatusThread_lost
    \/ Daemon_TrackEnds \/ Mpd_RunHandler

Next == MainStep \/ MonitorStep \/ MpdStep

Spec == Init /\ [][Next]_vars

\* client.py 537: the user ends the session with stop after the commands
\* that nCommands counts
cmd_stop_last ==
    /\ variant = "mplayer"
    /\ ~killed
    /\ stack = <<>>
    /\ pending = <<>>
    /\ lifecycle = "ready"
    /\ nCommands = MaxCommands
    /\ Step(<<Frame("do_stop", "sigusr1", 0, 0)>>)
    /\ Silent
    /\ UNCHANGED backendVars
    /\ UNCHANGED sessionVars

\* the sessions of Spec, and those that end with one more stop
StopNext == Next \/ cmd_stop_last

StopSpec == Init /\ [][StopNext]_vars

\* get_prompt applied to each of the mix names
PromptInit == InitSession /\ mix \in MixNames /\ prompt = <<>> /\ client = InitClient

\* the requests of one EightTracksAPI object
ApiSpec == Init /\ [][EightTracksAPI_request]_vars

\* the search commands of the command line
SearchNext == do_search \/ emptyline

SearchSpec == Init /\ [][SearchNext]_vars

\* the login and autologin commands, from an empty configuration
ConfigNext == do_login \/ do_set \/ preloop

ConfigSpec == Init /\ [][ConfigNext]_vars

PromptNext == get_prompt_Call

PromptSpec == PromptInit /\ [][PromptNext]_vars

\* mpd.py 75-112: a step of the status thread
StatusThread ==
    StatusThread_run \/ StatusThread_check \/ StatusThread_select \/ StatusThread_lost

\* the threads are scheduled fairly: the main thread, each monitor thread and
\* the status thread take a step when they can
FairSpec ==
    /\ Init
    /\ [][Next]_vars
    /\ WF_vars(MainStep)
    /\ \A i \in 1..MaxTracks : WF_vars(i \in Monitors /\ playback_status(i))
    /\ WF_vars(StatusThread)

\* =============================================================== properties
Alive == {i \in Monitors : IsAlive(i)}

\* the calls that the latest step ended, but for those that an exception
\* from a signal handler has cut short
Outcomes == {done[k] : k \in {j \in 1..Len(done) : ~done[j].cut}}

\* the calls of the backend that are in progress on the main thread
Calls == {k \in 1..Len(stack) : stack[k].op \in BackendOps}

PlayerOps == {"load", "playpause", "stop", "volume"}

InRange(amount) == amount \in 0..100

\* C1: a monitor thread of the slave-mode backend sends SONG_ENDED at most
\* once for its track: a thread that sends it has not sent it before
C1_SongEndedOnce ==
    [][\A i \in Monitors :
          emitted'.sig = "SIGUSR1" /\ emitted'.by = i => ~thr[i].ended]_vars

\* C2: a monitor thread sends REGISTER_SONG at most once for its track, and
\* its reported flag, once set, stays set until the thread ends
C2_ReportedOnce ==
    [][\A i \in Monitors :
          /\ emitted'.sig = "SIGUSR2" /\ emitted'.by = i => ~thr[i].registered
          /\ thr[i].reported /\ thr'[i].pc # "done" => thr'[i].reported]_vars

\* a monitor has reported its track and is reading the output again
C2_Witness ==
    \E i \in Monitors : thr[i].registered /\ thr[i].reported /\ thr[i].pc = "read"

\* C3: a load that succeeds leaves the backend with a monitor whose flags are
\* clear, whatever the monitor of the track before has reported, and that
\* monitor sends REGISTER_SONG for the new track at most once
C3_LoadClearsFlags ==
    [][/\ (\E o \in Outcomes' : o.op = "load" /\ o.exc = "ok") =>
             /\ t' # 0
             /\ ~thr'[t'].reported
             /\ ~thr'[t'].registered
             /\ ~thr'[t'].ended
       /\ \A i \in Monitors :
             thr[i].pc = "new" =>
                 ~thr[i].reported /\ ~thr[i].registered /\ ~thr[i].ended
       /\ \A i \in Monitors :
             emitted'.sig = "SIGUSR2" /\ emitted'.by = i =>
                 thr'[i].registered /\ ~thr[i].registered]_vars

\* the monitor of an earlier track has sent REGISTER_SONG, and a load has
\* made the monitor of the next track, which has sent nothing
C3_Witness ==
    \E i \in Monitors :
        /\ i > 1
        /\ thr[i].pc = "new"
        /\ thr[i - 1].registered
        /\ thr[i - 1].track # thr[i].track
        /\ ~thr[i].registered

\* C4: terminate() never raises, and after it
\* has returned every load, playpause, stop and volume call, whatever its
\* argument, fails with TerminatedError, and a call made after that writes
\* nothing and leaves the backend as it is
C4_Terminated ==
    [][/\ \A o \in Outcomes' :
             /\ o.op = "terminate" => o.exc = "ok"
             /\ o.op \in PlayerOps /\ o.g = "dead" => o.exc = "TerminatedError"
       /\ (\E k \in Calls : stack[k].g = "dead") /\ stack' # stack =>
             /\ stdin' = NoLine
             /\ UNCHANGED backendVars]_vars

\* C5: after terminate() of the idle-protocol backend every load, playpause,
\* stop and volume call fails with TerminatedError and sends nothing
C5_MpdTerminated ==
    /\ mpd.result.op \in PlayerOps /\ mpd.result.g => mpd.result.exc = "TerminatedError"
    /\ mpd.fg.op # "" /\ mpd.fg.g => mpd.sent = NoSent

\* C6: in both variants a volume command is sent only with an amount in
\* 0..100 and for every such amount, and a call with another amount fails
\* with ValueError before anything else is done
C6_VolumeRange ==
    /\ stdin.cmd = "volume" => InRange(stdin.arg)
    /\ \A o \in Outcomes : o.op = "volume" => (o.exc = "ValueError" <=> ~InRange(o.a))
    /\ \A k \in 1..Len(stack) :
          stack[k].op = "volume" /\ ~InRange(stack[k].a) => stack[k].pc = "begin"
    /\ mpd.sent.cmd = "setvol" => InRange(mpd.sent.arg)
    /\ mpd.result.op = "volume" => (mpd.result.exc = "ValueError" <=> ~InRange(mpd.result.a))
    /\ mpd.fg.op = "volume" => InRange(mpd.fg.a)

\* the volume command is written with an amount at the end of the range
C6_Witness == stdin.cmd = "volume" /\ stdin.arg = 100

\* C7: at most one monitor thread of the slave-mode backend is alive
C7_OneMonitor == Cardinality(Alive) <= 1

\* C8: an event of a track's monitor is handled only while that track is the
\* session's current track
C8_NoStaleEvent ==
    /\ lastReport # NoReport => lastReport.from = lastReport.track
    /\ \A k \in 1..Len(stack) :
          stack[k].op = "_song_end_handler" /\ stack[k].pc = "begin" =>
              stack[k].a = status

\* C9: every event sent while the handlers are installed is handled on its
\* own, and the events are handled in the order in which they were sent
C9_OncePerEventInOrder ==
    [][/\ emitted'.sig # "" /\ handlers[emitted'.sig] = "handler" =>
             Len(pending') = Len(pending) + 1
       /\ Len(pending') < Len(pending) /\ handlers' = handlers =>
             pending' = Tail(pending)]_vars

\* C10: a load of the slave-mode backend that finds its deadline passed has
\* started no monitor and ends with the error for the deadline, a RuntimeError,
\* when the backend is terminated, and a playpause() after that fails with
\* TerminatedError
C10_LoadTimeout ==
    /\ \A k \in 1..Len(stack) :
          stack[k].op = "load" /\ stack[k].pc = "timeout" => stack[k].l = 0
    /\ \A o \in Outcomes :
          /\ o.op = "load" /\ o.pc = "timeout" =>
                o.exc = "RuntimeError" /\ p = "dead" /\ procTerminated
          /\ o.op = "playpause" /\ o.g = "dead" => o.exc = "TerminatedError"

\* C11: a construction of the slave-mode backend that fails because the
\* banner was not read before the deadline fails with InitializationError
C11_HandshakeError ==
    \A o \in Outcomes :
        o.op = "MPlayer" /\ o.pc = "wait_banner" /\ o.exc # "ok" =>
            o.exc = "InitializationError"

\* C12: when the handshake wait of the construction or the wait of load ends
\* with an error for its deadline, the child process has been terminated and
\* the process handle is the terminated sentinel
C12_DeadlineTerminates ==
    \A o \in Outcomes :
        /\ \/ o.op = "MPlayer" /\ o.pc = "wait_banner"
           \/ o.op = "load" /\ o.pc = "timeout"
        /\ o.exc # "ok"
        => p = "dead" /\ procTerminated

C14_TerminateOrder ==
    [][/\ ~procTerminated /\ procTerminated' => Alive = {}
       /\ p # "dead" /\ p' = "dead" => procTerminated
       /\ \A i \in Monitors :
             thr[i].pc \in {"write", "read"} /\ thr'[i].pc # thr[i].pc =>
                 ~procTerminated]_vars

\* C15, as the specification states it: the construction succeeds whatever
\* the capability probe finds, the command form it records never changes
\* afterwards, and every pause and volume command written to the player
\* carries the recorded form as prefix
C15_ProbeForm ==
    [][/\ \A o \in Outcomes' : o.op = "MPlayer" /\ o.pc = "probe_wait" => o.exc = "ok"
       /\ pausing_keep # "" => pausing_keep' = pausing_keep
       /\ stdin'.cmd \in {"pause", "volume"} =>
             /\ pausing_keep \in {"pausing_keep", "pausing_keep_force"}
             /\ stdin'.prefix = pausing_keep]_vars

\* C15, amended: the construction succeeds whatever the capability probe
\* finds, the command form it records never changes afterwards, every volume
\* and stop command and every position query written to the player carries
\* the recorded form as prefix, and the pause command is written without a
\* prefix
C15_RecordedForm ==
    [][/\ \A o \in Outcomes' : o.op = "MPlayer" /\ o.pc = "probe_wait" => o.exc = "ok"
       /\ pausing_keep # "" => pausing_keep' = pausing_keep
       /\ stdin'.cmd \in {"volume", "stop", "get_time_pos"} =>
             /\ pausing_keep \in {"pausing_keep", "pausing_keep_force"}
             /\ stdin'.prefix = pausing_keep
       /\ stdin'.cmd = "pause" => stdin'.prefix = ""]_vars

\* a volume command is written in the fallback form, which the probe has
\* recorded
C15_Witness ==
    /\ stdin.cmd = "volume"
    /\ stdin.prefix = pausing_keep
    /\ pausing_keep = "pausing_keep"

\* the scheme of a URL: the characters before its first colon
Scheme(url) ==
    LET colons == {i \in 1..Len(url) : url[i] = ":"}
    IN IF colons = {} THEN <<>>
       ELSE SubSeq(url, 1, (CHOOSE i \in colons : \A j \in colons : i <= j) - 1)

\* a URL with another scheme
WithScheme(url, scheme) == scheme \o SubSeq(url, Len(Scheme(url)) + 1, Len(url))

\* C16: the loadfile command of a load carries, as its quoted argument, the
\* URL of the track with the scheme http in place of https, and the URL as it
\* is when its scheme is another one; a load writes its loadfile command when
\* its _send_command call returns, and no loadfile command is written
\* otherwise
C16_LoadfileScheme ==
    [][LET n == Len(stack)
           sends == /\ n >= 2
                    /\ stack[n].op = "_send_command"
                    /\ stack[n].a.cmd = "loadfile"
                    /\ stack[n - 1].op = "load"
                    /\ stack[n - 1].pc = "wait"
                    /\ stack' = SubSeq(stack, 1, n - 1)
       IN /\ sends <=> stdin'.cmd = "loadfile"
          /\ sends =>
                LET url == UrlOf(stack[n - 1].a)
                IN stdin'.text = Quote(IF Scheme(url) = <<"h", "t", "t", "p", "s">>
                                       THEN WithScheme(url, <<"h", "t", "t", "p">>)
                                       ELSE url)]_vars

\* the loadfile command of a track with an https URL is written
C16_Witness ==
    /\ stdin.cmd = "loadfile"
    /\ UrlOf(stdin.arg) = Text("https://a")
    /\ stdin.text = Text("http://a")

\* C17: after every load call of the idle-protocol backend, however it ended,
\* the queue of the daemon holds the track of that call and no other
C17_QueueAfterLoad == mpd.result.op = "load" => mpd.queue = <<mpd.result.a>>

\* C18: a connection that fails or is lost never ends the status thread of
\* the idle-protocol backend
C18_MonitorSurvives == mpd.tpc # "crashed"

\* C19: on a wake the status thread sends SONG_ENDED exactly when the state
\* it had recorded is play, the new state is stop and the status has no song
\* id, and it records the new state; it sends SONG_ENDED at no other time,
\* and having sent it the recorded state is stop
C19_SongEndedOnStop ==
    [][/\ mpd.tpc = "select" /\ mpd.changed /\ mpd'.tpc = "check" =>
             /\ emitted'.sig = "SIGUSR1" <=>
                   mpd.oldstate = "play" /\ mpd.state = "stop" /\ ~mpd.songid
             /\ mpd'.oldstate = mpd.state
       /\ variant = "mpd" /\ emitted'.sig = "SIGUSR1" =>
             /\ mpd.tpc = "select" /\ mpd.changed
             /\ mpd'.oldstate = "stop"]_vars

\* the status thread has woken with play as the recorded state and has found
\* the player stopped by a stop command, with the song id still there, and
\* has sent nothing
C19_Witness ==
    /\ variant = "mpd"
    /\ mpd.tpc = "check"
    /\ mpd.oldstate = "stop"
    /\ mpd.state = "stop"
    /\ mpd.songid
    /\ ~mpd.changed
    /\ pending = <<>>

\* C20: playpause() and stop() of either variant end normally or with
\* CommandError or TerminatedError
C20_PauseStopErrors ==
    /\ \A o \in Outcomes :
          o.op \in {"playpause", "stop"} =>
              o.exc \in {"ok", "CommandError", "TerminatedError"}
    /\ mpd.result.op \in {"playpause", "stop"} =>
          mpd.result.exc \in {"ok", "CommandError", "TerminatedError"}

\* C21: a call of the idle-protocol backend that fails with CommandError
\* leaves the queue of the daemon as it was when the call was made
C21_FailedCommandNoEffect ==
    mpd.result.exc = "CommandError" => mpd.queue = mpd.result.q

\* C22: a monitor thread whose stop flag is set ends under fair scheduling:
\* a slave-mode monitor whose stop event is set ends (or the process is
\* gone), and the status thread ends once _stop is set
C22_StopObserved ==
    /\ \A i \in 1..MaxTracks :
          (IF i \in Monitors THEN IsAlive(i) /\ events[thr[i].ev] ELSE FALSE)
              ~> (IF i \in Monitors THEN killed \/ thr[i].pc = "done" ELSE FALSE)
    /\ (mpd.stop /\ mpd.tpc \in {"connect", "check", "select"})
          ~> (mpd.tpc \in {"exited", "crashed"})

\* the threads that are about to write a line to the input of the player
Writers ==
    {<<"main", k>> : k \in {j \in 1..Len(stack) :
                               stack[j].op = "_send_command" /\ stack[j].pc = "write"}}
        \cup {<<"monitor", i>> : i \in {j \in Monitors : thr[j].pc = "write"}}

\* C23: a command of the foreground thread (loadfile, pause, stop, volume) is
\* written by _send_command while the main thread holds the write lock, the
\* position query is written while a monitor holds it, and at most one
\* thread is between taking the lock and its write
C23_WritesUnderLock ==
    [][/\ stdin'.cmd \in {"loadfile", "pause", "stop", "volume"}
            => write_lock = "main" /\ Top.op = "_send_command" /\ Top.pc = "write"
       /\ stdin'.cmd = "get_time_pos"
            => write_lock = "monitor" /\ \E i \in Monitors : thr[i].pc = "write"
       /\ Cardinality(Writers) <= 1
       /\ Writers # {} => write_lock # "free"]_vars

\* a command of the main thread waits for the lock while a monitor is about
\* to write its query
C23_Witness ==
    /\ stack # <<>>
    /\ Top.op = "_send_command"
    /\ Top.pc = "acquire"
    /\ write_lock = "monitor"
    /\ \E i \in Monitors : thr[i].pc = "write"

C25_TerminatedAbsorbing ==
    [][p = "dead"
         => /\ p' = "dead"
            /\ Len(thr') = Len(thr)
            /\ \A i \in Monitors : thr[i].pc = "new" => thr'[i].pc = "new"]_vars

\* C26: get_prompt returns '(8tracks:' + N + ')> ' where N is the name if it
\* has at most 30 characters, and else its first 30 characters and '...'
C26_Prompt ==
    prompt # <<>>
        => prompt = Text("(8tracks:")
                        \o (IF Len(mix) <= 30 THEN mix
                            ELSE SubSeq(mix, 1, 30) \o Text("..."))
                        \o Text(")> ")

\* the prompt of a name of exactly 30 characters
C26_Witness == prompt # <<>> /\ Len(mix) = 30

\* the order of the steps of one load call: the places a call of load is at,
\* each with the places that follow it
LoadOrder ==
    {<<"begin", "send">>, <<"send", "wait">>, <<"wait", "new_event">>, <<"wait", "timeout">>,
     <<"new_event", "thread_args">>, <<"thread_args", "new_thread">>,
     <<"new_thread", "start">>}

\* C27: a call of load goes through its steps in order: it signals and joins
\* the previous monitor and goes on only when that monitor has ended, then
\* writes loadfile, then polls for the marker; only a call that has read the
\* marker creates a thread and starts it, and a call whose deadline has
\* passed goes no further
C27_LoadOrder ==
    [][/\ \A k \in 1..Len(stack) :
            stack[k].op = "load" /\ k <= Len(stack') /\ stack'[k].pc # stack[k].pc
                => /\ stack'[k].op = "load"
                   /\ <<stack[k].pc, stack'[k].pc>> \in LoadOrder
                   /\ stack[k].pc = "begin"
                        => Len(stack') = k + 1 /\ stack'[k + 1] = StopFrame
                   /\ stack[k].pc = "send"
                        => /\ Len(stack') = k + 1
                           /\ stack'[k + 1].op = "_send_command"
                           /\ stack'[k + 1].a.cmd = "loadfile"
       /\ \A k \in 2..Len(stack) :
            /\ k = Len(stack)
            /\ stack[k].op = "_stop_background_thread"
            /\ stack[k - 1].op = "load"
            /\ Len(stack') = k - 1
            => \/ stack[k].pc = "wait" /\ thr[stack[k].l].pc = "done"
               \/ stack[k].pc = "check" /\ (t = 0 \/ ~IsAlive(t))
       /\ stdin'.cmd = "loadfile"
            => Len(stack) >= 2 /\ stack[Len(stack) - 1].op = "load"
                               /\ stack[Len(stack) - 1].pc = "wait"
       /\ Len(thr') > Len(thr) => Top.op = "load" /\ Top.pc = "new_thread"
       /\ \A i \in Monitors :
            thr[i].pc = "new" /\ thr'[i].pc # "new"
                => Top.op = "load" /\ Top.pc = "start" /\ t = i]_vars

\* a call of load has joined the previous monitor, has read the marker and
\* has created the new thread that it is about to start
C27_Witness ==
    /\ stack # <<>>
    /\ Top.op = "load"
    /\ Top.pc = "start"
    /\ Len(thr) >= 2
    /\ thr[Len(thr) - 1].pc = "done"
    /\ thr[Len(thr)].pc = "new"

\* C28: when terminate() of the idle-protocol backend has returned the status
\* thread has ended, and no SIGUSR1 is sent from then on
C28_MpdTerminateJoins ==
    [][/\ mpd'.terminated => mpd'.tpc \in {"none", "exited", "crashed"}
       /\ mpd.terminated => emitted'.sig = ""]_vars

\* C29: when stop() of the slave-mode backend has returned, no monitor thread
\* is alive
C29_StopJoins ==
    \A o \in Outcomes : o.op = "stop" /\ o.exc = "ok" => Alive = {}

\* C30: while a call of load polls the output for the marker, no monitor
\* thread is alive
C30_OneConsumer ==
    stack # <<>> /\ Top.op = "load" /\ Top.pc = "wait" => Alive = {}

\* the main thread is in a call of op
Within(op) == \E k \in 1..Len(stack) : stack[k].op = op

\* C31: under fair scheduling a SIGUSR1 handler that has been entered
\* completes, and a call of load returns or raises (or the process is gone)
C31_HandlerCompletes ==
    /\ Within("_song_end_handler") ~> (killed \/ ~Within("_song_end_handler"))
    /\ Within("load") ~> (killed \/ ~Within("load"))

\* C32: SIGUSR1 and SIGUSR2 are sent only while the handler of the session
\* is registered for them
C32_NoSignalWithoutHandler ==
    [][emitted'.sig # "" => handlers[emitted'.sig] = "handler" /\ ~killed']_vars

\* C34: the track that _song_report_handler reports is the track whose
\* monitor has sent the SIGUSR2 that is handled
C34_ReportsEmittingTrack ==
    [][lastReport' # NoReport
         => pending # <<>> /\ lastReport'.track = pending[LowestPending].track]_vars

\* C33: while a load of the idle-protocol backend that has stopped a playing
\* track with its clear is in progress, the status thread sends no SIGUSR1
C33_LoadEmitsNoSongEnded ==
    [][mpd.fg.op = "load" /\ mpd.fg.stopped => emitted'.sig = ""]_vars

\* C35: when no call of the idle-protocol backend is in progress, and when a
\* call has ended, with or without an error, the command client is not
\* connected
C35_ConnectionClosed ==
    /\ mpd.fg.op = "" => ~mpd.conn
    /\ mpd.result.op # "" => ~mpd.conn

\* a load has connected and has been rejected by the daemon
C35_Witness ==
    /\ mpd.result.op = "load"
    /\ mpd.result.exc = "CommandError"
    /\ mpd.sent.cmd = "add"
    /\ ~mpd.conn

\* C36, as stated: at most one play token is requested, and every request
\* is made with the same token
C36_OneTokenRequest ==
    [][/\ client'.token_requests <= 1
       /\ client.request.token # 0 /\ client'.request.token # 0
            => client'.request.token = client.request.token]_vars

\* C36, amended: a play token is requested only while none is cached, so at
\* most one request of a token succeeds, and every request after it is made
\* with that token
C36_OneTokenObtained ==
    [][/\ client.play_token # 0
            => /\ client'.play_token = client.play_token
               /\ client'.token_requests = client.token_requests
       /\ client'.request.token # 0 => client'.request.token = client'.play_token]_vars

\* the first request of a token has failed, the second has returned the
\* token, and the third call has made its request with the cached token
C36_Witness ==
    /\ client.token_requests = 2
    /\ client.play_token = 2
    /\ client.calls = 3
    /\ client.request.token = 2

\* C37: when the first page of a query that is not a next-page request has
\* been displayed, the cache holds only mixes of that query
C37_CacheOfNewQuery ==
    client.displayed = 1 /\ ~client.lastline_is_empty
        => \A i \in DOMAIN client.mixes :
               client.mixes[i] \in {NoMix, [term |-> client.search_term,
                                            type |-> client.query_type]}

\* C38: after every login, set autologin and start, while autologin is off
\* the configuration file holds an empty username and an empty password
C38_NoCredentialsWithoutAutologin ==
    client.config.autologin = ""
        => client.config.username = "" /\ client.config.password = ""

\* a user has logged in with a password while autologin is off, and nothing
\* is stored
C38_Witness ==
    /\ client.config.autologin = ""
    /\ client.config.username = ""
    /\ client.config.password = ""
    /\ client.logged_in
    /\ client.user_name = "v"
    /\ client.password = "x"

=============================================================================
